---- MODULE Spec2Model ----
(***************************************************************************)
(* Rekada Lens: the intake-tracking page (js/main.js), the product scanner *)
(* page (static/js/product-scanner.js), the setup wizard                   *)
(* (static/js/user-setup.js), the router (static/js/router.js) and the     *)
(* analysis pipeline of the backend as state machines.                     *)
(*                                                                         *)
(* Optional JavaScript values (null / a missing localStorage key) are      *)
(* modelled as sequences of length 0 or 1: <<>> is null, <<v>> is v.       *)
(***************************************************************************)
EXTENDS Integers, Sequences, FiniteSets

\* ------------------------------------------------------------------ bounds
\* Date.now() ranges over 0..MaxClock.
MaxClock == 1
\* At most MaxLogged records are logged by saveToIntake in one behaviour.
MaxLogged == 2
\* Clock ticks per calendar day (toLocaleDateString granularity).
TicksPerDay == 2
\* At most MaxRuns images are uploaded in one behaviour.
MaxRuns == 2
\* At most MaxLogRequests log requests are sent in one behaviour.
MaxLogRequests == 2
\* At most MaxPipelineRuns runs of the backend pipeline in one behaviour.
MaxPipelineRuns == 2
\* At most MaxCompletions profiles are stored by the wizards in one behaviour.
MaxCompletions == 1
\* At most MaxLoads calls of loadPage in one behaviour.
MaxLoads == 6

VARIABLES
    \* ---- js/main.js, lines 4-7
    currentPage,      \* name of the page shown
    userProfile,      \* <<>> or <<profile>>
    currentAnalysis,  \* <<>> or <<analysis>>
    intakeHistory,    \* sequence of intake records, index 1 is JS index 0
    \* ---- browser environment of both pages
    localStorage,     \* key -> <<>> (no item) or <<text>>
    dom,              \* textContent of the dashboard elements of main.js
    toast,            \* <<>> or <<toast>>: what the last handler showed
    thrown,           \* exception the last handler ended with, or "none"
    clock,            \* Date.now()
    \* ---- history variables (not program state)
    logged,           \* the records created since the last logout, oldest first
    lastLog,          \* <<>> or <<outcome of the last saveToIntake since logout>>
    \* ---- static/js/product-scanner.js
    resultsContainer, \* what #results-container shows
    analyzeFetches,   \* analyze requests in flight
    logFetches,       \* intake log requests in flight
    scannerToast,     \* <<>> or <<toast>>: the toast last shown
    download,         \* <<>> or <<Markdown report last generated>>
    serverIntake,     \* entries the backend has stored
    \* ---- history variables of the scanner page
    runsStarted,      \* number of processUploadedImage calls so far
    logsSent,         \* number of log requests sent so far
    scanLastLog,      \* <<>> or <<outcome of the last settled log request>>
    displayedRun,     \* the run whose spinner, report or error is on display; 0: none
    \* ---- a second instance of the main.js page in another tab
    peer,             \* its lines 4-7, its elements, toast and exception
    \* ---- the analysis pipeline of the backend (orchestrator and stages)
    pipeline,         \* the run in progress or last finished
    \* ---- the personalization engine of the backend
    personalized,     \* <<>> or <<the last personalize call: inputs and output>>
    \* ---- the setup wizard (static/js/user-setup.js, or initUserSetupPage
    \* of static/js/router.js) and the router (static/js/router.js)
    wizard,           \* the wizard on display: its closure variables and form
    router            \* RekadaRouter: currentPage, its DOM, loads in flight

mainVars == <<currentPage, userProfile, currentAnalysis, intakeHistory>>
mainEnv == <<dom, toast, thrown, clock>>
mainHist == <<logged, lastLog>>
appVars == <<personalized, wizard, router>>
scannerVars == <<resultsContainer, analyzeFetches, logFetches, scannerToast,
                 download, serverIntake, runsStarted, logsSent, scanLastLog,
                 displayedRun>>
vars == <<mainVars, localStorage, mainEnv, mainHist, scannerVars, peer, pipeline, appVars>>

\* ------------------------------------------------------- JavaScript values
Undefined == "undefined"

\* JavaScript truthiness of a string-valued (or missing) property.
Falsy(v) == v \in {"", Undefined}

\* Number.prototype.toString(): the decimal digits of a non-negative integer.
RECURSIVE NumberToString(_)
NumberToString(n) == IF n < 10 THEN <<n>> ELSE NumberToString(n \div 10) \o <<n % 10>>

\* Date.prototype.toISOString(): a rendering that keeps the millisecond.
ToISOString(t) == [iso |-> t]

\* Date.prototype.toLocaleDateString(): keeps the calendar day only.
ToLocaleDateString(t) == [day |-> t \div TicksPerDay]

\* JSON.stringify of an analysis: a key whose value is undefined is left out.
JsonAnalysis(a) ==
    [a EXCEPT !.category = IF a.category = Undefined THEN "absent" ELSE @]

\* JSON.parse of the same text: reading a key that is absent gives undefined.
ParsedAnalysis(a) ==
    [a EXCEPT !.category = IF a.category = "absent" THEN Undefined ELSE @]

\* A stringify that loses a field of the nested snapshot.
StringifyHistoryDroppingSnapshot(h) ==
    [json |-> [i \in 1..Len(h) |->
        [h[i] EXCEPT !.productAnalysis =
            [JsonAnalysis(@) EXCEPT !.recommendation = "absent"]]]]

\* JSON.stringify(intakeHistory) and JSON.parse of the stored text.
StringifyHistory(h) ==
    [json |-> [i \in 1..Len(h) |->
        [h[i] EXCEPT !.productAnalysis = JsonAnalysis(@)]]]

ParseHistory(text) ==
    [i \in 1..Len(text.json) |->
        [text.json[i] EXCEPT !.productAnalysis = ParsedAnalysis(@)]]

\* JSON text of a plain object whose values are all strings or numbers.
StringifyObject(o) == [json |-> o]
ParseObject(text) == text.json

\* ----------------------------------------------------------- input domains
\* Pages the listeners navigate to (one of the seven; the page name has no
\* influence on any other state).
Pages == {"home"}
Recommendations == {"safe", "caution", "avoid"}
\* Arguments and random draws of analyzeProduct: the category (undefined
\* when the caller passes none), Math.random() for overallScore (1..100) and
\* for getRandomRecommendation.
AnalysisInputs ==
    {[category |-> "food", score |-> 1, recommendation |-> "safe"],
     [category |-> "beauty", score |-> 50, recommendation |-> "caution"],
     [category |-> Undefined, score |-> 100, recommendation |-> "avoid"]}
\* What another page may have stored under 'currentProduct'.
Products == {[name |-> "Cola"]}
\* The fields of the profile form that the model keeps.
Forms == {[firstName |-> "Ann", lastName |-> "Lee", age |-> 30]}

NoToast == <<>>
Toast(message, type) == <<[message |-> message, type |-> type]>>

\* The dashboard elements as the HTML file delivers them.
InitialDom ==
    [productsAnalyzed |-> NumberToString(0), safeProducts |-> NumberToString(0),
     cautionProducts |-> NumberToString(0), avoidProducts |-> NumberToString(0),
     userName |-> ""]

EmptyStorage ==
    [userProfile |-> <<>>, intakeHistory |-> <<>>, currentProduct |-> <<>>,
     rekada_user_id |-> <<>>, rekada_user_profile |-> <<>>]

\* --------------------------------------------------------- main.js helpers
CountRecommendation(history, r) ==
    Cardinality({i \in 1..Len(history) :
                    history[i].productAnalysis.recommendation = r})

UpdateDashboardStats(d, history) ==
    LET d1 == [d EXCEPT !.productsAnalyzed = NumberToString(Len(history))]
    IN  IF Len(history) > 0
        THEN [d1 EXCEPT
                !.safeProducts = NumberToString(CountRecommendation(history, "safe")),
                !.cautionProducts = NumberToString(CountRecommendation(history, "caution")),
                !.avoidProducts = NumberToString(CountRecommendation(history, "avoid"))]
        ELSE d1

\* userProfile.fullName.split(' ')[0]; fullName is kept as its list of words.
UpdateUserInterface(d, profile, history) ==
    UpdateDashboardStats(
        IF profile # <<>> THEN [d EXCEPT !.userName = profile[1].fullName[1]]
                          ELSE d,
        history)

\* generateMockAnalysis: analyses[category] || analyses.food.  The random
\* nutrient figures inside the chosen entry are not kept.
GenerateMockAnalysis(category) ==
    IF category \in {"food", "drinks", "beauty"} THEN category ELSE "food"

\* Three ways to get Array.prototype.unshift wrong.
UnshiftMerging(history, record) ==
    <<record>> \o SelectSeq(history,
        LAMBDA old : old.productAnalysis.product.name
                        # record.productAnalysis.product.name)

Push(history, record) == history \o <<record>>

UnshiftOverHead(history, record) ==
    IF history = <<>> THEN <<record>> ELSE <<record>> \o Tail(history)

\* intakeHistory.unshift(record)
Unshift(history, record) == <<record>> \o history

\* The record saveToIntake builds.
IntakeRecord(analysis, now) ==
    [id |-> NumberToString(now), productAnalysis |-> analysis,
     timestamp |-> ToISOString(now), date |-> ToLocaleDateString(now)]

\* A saveToIntake that stores the new record alone.
PersistAndReportOnlyNewest(history, storageOk) ==
    IF storageOk
    THEN /\ localStorage' = [localStorage EXCEPT
                               !.intakeHistory = <<StringifyHistory(<<history[1]>>)>>]
         /\ toast' = Toast("Product saved to intake history!", "success")
         /\ dom' = UpdateDashboardStats(dom, history)
         /\ thrown' = "none"
    ELSE /\ toast' = NoToast
         /\ thrown' = "QuotaExceededError"
         /\ UNCHANGED <<localStorage, dom>>

\* A saveToIntake whose storage error is caught and ignored.
PersistAndReportIgnoringError(history, storageOk) ==
    /\ localStorage' = IF storageOk
                       THEN [localStorage EXCEPT
                               !.intakeHistory = <<StringifyHistory(history)>>]
                       ELSE localStorage
    /\ toast' = Toast("Product saved to intake history!", "success")
    /\ dom' = UpdateDashboardStats(dom, history)
    /\ thrown' = "none"

\* Lines 405-408 of saveToIntake.  storageOk = FALSE: localStorage.setItem
\* throws (quota exceeded); the exception leaves saveToIntake, so the toast
\* and updateDashboardStats are not reached.
PersistAndReport(history, storageOk) ==
    IF storageOk
    THEN /\ localStorage' = [localStorage EXCEPT
                               !.intakeHistory = <<StringifyHistory(history)>>]
         /\ toast' = Toast("Product saved to intake history!", "success")
         /\ dom' = UpdateDashboardStats(dom, history)
         /\ thrown' = "none"
    ELSE /\ toast' = NoToast
         /\ thrown' = "QuotaExceededError"
         /\ UNCHANGED <<localStorage, dom>>

\* What #results-container shows: nothing yet (it starts hidden), the
\* spinner, a report, or an error alert.
Container(kind, view, message) == [kind |-> kind, view |-> view, message |-> message]

\* ------------------------------------------------- the backend pipeline
\* The orchestrator runs extraction, classification and analysis in turn.
\* stage: the stage about to run, or "idle", "done", "failed"; requests: the
\* requests made to the reasoning service in this analyze call; failure: the
\* typed failure, or "none"; ran, replies and classified are history
\* variables: the stages started in this run, the replies of the reasoning
\* service, and the classify calls of all runs with their results.
Sources == {"image", "text"}
\* A label text is the list of the ingredient names read off the label.
LabelTexts ==
    {<<"carbonated water", "sugar">>, <<"aqua", "glycerin">>, <<"sugar">>,
     <<"sugar", "glycerin">>, <<"carbonated water", "glycerin">>, <<"lorem ipsum">>}
ExtractionFailures == {"ExtractionUnavailable", "InvalidInput", "NoTextFound"}
AnalysisReplies == {"valid", "malformed", "unavailable"}

IdlePipeline ==
    [stage |-> "idle", run |-> 0, source |-> "none", requests |-> 0,
     labelText |-> <<>>, classification |-> <<>>, analysis |-> <<>>,
     failure |-> "none", ran |-> <<>>, replies |-> <<>>, classified |-> {}]

\* classify: keyword scoring.  Every category has a term set, each term of
\* weight 1; the score of a category is the weight of its terms found in
\* the text over the weight of all its terms, in thousandths.
Categories == <<"food", "drink", "beauty">>

Lexicon(category) ==
    CASE category = "food" -> {"sugar", "flour"}
      [] category = "drink" -> {"carbonated water", "sugar"}
      [] category = "beauty" -> {"aqua", "glycerin"}

TermsOf(text) == {text[i] : i \in 1..Len(text)}

Score(text, category) ==
    (Cardinality(Lexicon(category) \cap TermsOf(text)) * 1000)
        \div Cardinality(Lexicon(category))

\* Among the categories of the highest score, the last in the order.
WinnerLastOfTies(text) ==
    CHOOSE i \in 1..Len(Categories) :
        \A j \in 1..Len(Categories) :
            \/ Score(text, Categories[j]) < Score(text, Categories[i])
            \/ Score(text, Categories[j]) = Score(text, Categories[i]) /\ j <= i

\* Among the categories of the highest score, the first in the order food,
\* drink, beauty.
Winner(text) ==
    CHOOSE i \in 1..Len(Categories) :
        \A j \in 1..Len(Categories) :
            \/ Score(text, Categories[j]) < Score(text, Categories[i])
            \/ Score(text, Categories[j]) = Score(text, Categories[i]) /\ i <= j

\* No matching term gives unknown with confidence 0.
Classify(text) ==
    LET best == Categories[Winner(text)]
    IN  IF Score(text, best) = 0
        THEN [category |-> "unknown", confidence |-> 0]
        ELSE [category |-> best, confidence |-> Score(text, best)]

\* The judgment decoded from a valid reply.
Judgment(text, category) ==
    [text |-> text, category |-> category.category, healthiness_rating |-> 4,
     fda_approval |-> "Unverified"]

\* A stage that drops what earlier stages produced when it fails.
FailDroppingPartial(p, failure) ==
    [p EXCEPT !.stage = "failed", !.failure = failure,
              !.labelText = <<>>, !.classification = <<>>]

\* A stage fails closed: the run halts with the typed failure and keeps the
\* results computed so far.
FailClosed(p, failure) == [p EXCEPT !.stage = "failed", !.failure = failure]

\* An analyzer that asks again after every malformed reply.
MayRequestAgainAlways(requests) == TRUE

\* A malformed reply is answered by a re-request only if it was the first.
MayRequestAgain(requests) == requests < 2

pipelineFrame == <<mainVars, localStorage, mainEnv, mainHist, scannerVars, peer, appVars>>

StartRun(source) ==
    /\ pipeline.stage \in {"idle", "done", "failed"}
    /\ pipeline.run < MaxPipelineRuns
    /\ pipeline' = [IdlePipeline EXCEPT !.stage = "extraction",
                                        !.run = pipeline.run + 1,
                                        !.source = source,
                                        !.classified = pipeline.classified]
    /\ UNCHANGED pipelineFrame

\* extract: the label text, or one of its failures.
Extract(failure, text) ==
    /\ pipeline.stage = "extraction"
    /\ pipeline' =
          IF failure \in ExtractionFailures
          THEN FailClosed([pipeline EXCEPT !.ran = Append(@, "extraction")], failure)
          ELSE [pipeline EXCEPT !.ran = Append(@, "extraction"),
                                !.labelText = <<text>>,
                                !.stage = "classification"]
    /\ UNCHANGED pipelineFrame

RunClassifier ==
    /\ pipeline.stage = "classification"
    /\ pipeline' = [pipeline EXCEPT !.ran = Append(@, "classification"),
                                    !.classification = <<Classify(pipeline.labelText[1])>>,
                                    !.classified =
                                        @ \cup {[text |-> pipeline.labelText[1],
                                                 result |-> Classify(pipeline.labelText[1])]},
                                    !.stage = "analysis"]
    /\ UNCHANGED pipelineFrame

\* analyze: one request to the reasoning service and its reply.
RequestAnalysis(reply) ==
    /\ pipeline.stage = "analysis"
    /\ LET p == [pipeline EXCEPT
                   !.ran = IF pipeline.requests = 0 THEN Append(@, "analysis") ELSE @,
                   !.requests = @ + 1,
                   !.replies = Append(@, reply)]
       IN  pipeline' =
              CASE reply = "valid" ->
                     [p EXCEPT !.stage = "done",
                               !.analysis = <<Judgment(p.labelText[1], p.classification[1])>>]
                [] reply = "unavailable" -> FailClosed(p, "AnalysisUnavailable")
                [] reply = "malformed" ->
                     IF MayRequestAgain(p.requests) THEN p
                     ELSE FailClosed(p, "AnalysisMalformed")
    /\ UNCHANGED pipelineFrame

PipelineNext ==
    \/ \E source \in Sources : StartRun(source)
    \/ \E failure \in ExtractionFailures : Extract(failure, <<>>)
    \/ \E text \in LabelTexts : Extract("none", text)
    \/ RunClassifier
    \/ \E reply \in AnalysisReplies : RequestAnalysis(reply)


\* ------------------------------------------ the setup wizard: values
\* user-setup.js line 5, router.js line 93
totalSteps == 6

\* The wizard's form: the text of #fullName and the text of #age, the latter
\* as its sequence of digits.  The checkbox groups are left out: no step
\* and no stored field the model keeps depends on them.
FullNames == {"", "Ann"}
AgeTexts == {<<>>, <<0>>, <<3, 0>>}
WizardForms == [fullName : FullNames, age : AgeTexts]
EmptyForm == [fullName |-> "", age |-> <<>>]

\* parseInt of a digit string; <<>> is NaN (the empty string).
RECURSIVE ParseInt(_)
ParseInt(text) ==
    IF text = <<>> THEN <<>>
    ELSE IF Len(text) = 1 THEN <<text[1]>>
    ELSE <<ParseInt(SubSeq(text, 1, Len(text) - 1))[1] * 10 + text[Len(text)]>>

\* collectFormData: fullName: value || '', age: parseInt(value) || 0
CollectFormData(form) ==
    [fullName |-> form.fullName,
     age |-> IF ParseInt(form.age) \in {<<>>, <<0>>} THEN 0 ELSE ParseInt(form.age)[1]]

\* A validation that asks for the name and the age at every step.
ValidateStepEverywhere(step, form) == form.fullName # "" /\ form.age # <<>>

\* validateStep: step 1 wants a name and an age; the other steps are optional.
ValidateStep(step, form) ==
    IF step = 1 THEN form.fullName # "" /\ form.age # <<>> ELSE TRUE

\* Whether a click on Complete stores a profile.  user-setup.js 97-103:
\* validateStep(currentStep); router.js 183-185 and 241-244: the collected
\* fullName and age must be truthy.
CompletionStores(impl, step, form) ==
    IF impl = "user-setup.js" THEN ValidateStep(step, form)
    ELSE CollectFormData(form).fullName # "" /\ CollectFormData(form).age # 0

\* The toast of a refused completion.
RefusalToast(impl) ==
    IF impl = "user-setup.js"
    THEN Toast("Please fill in the required fields", "warning")
    ELSE Toast("Please fill in all required fields.", "error")

\* The toast of a refused Next.
NextRefusalToast(impl) ==
    IF impl = "user-setup.js"
    THEN Toast("Please fill in the required fields", "warning")
    ELSE Toast("Please fill in all required fields.", "warning")

\* The profile stored: id is Date.now() in user-setup.js and
\* Date.now().toString() in router.js.
WizardProfile(impl, form, now) ==
    [id |-> IF impl = "user-setup.js" THEN <<"number", now>>
            ELSE <<"string", NumberToString(now)>>,
     fullName |-> CollectFormData(form).fullName,
     age |-> CollectFormData(form).age,
     createdAt |-> ToISOString(now)]

\* No wizard on display.  completions (the profiles stored so far) and
\* leftStepOne (the form when step 1 was last left by Next) are history
\* variables.
ClosedWizard(completions) ==
    [impl |-> "none", currentStep |-> 1, form |-> EmptyForm, toast |-> NoToast,
     redirect |-> FALSE, completions |-> completions, leftStepOne |-> <<>>]

\* The wizard after its script ran: showStep(1) on an empty form.
OpenedWizard(impl, completions) == [ClosedWizard(completions) EXCEPT !.impl = impl]

\* ------------------------------------------------- the router: values
\* The buttons of a page that call loadPage, with the page they load.
ButtonTarget(page, button) ==
    CASE page = "landing" /\ button = "get-started-btn" -> "user-setup"
      [] page = "user-setup" /\ button = "back-to-home-btn" -> "landing"
      [] page = "dashboard" /\ button = "analyze-products-btn" -> "product-analyzer"
      [] page = "dashboard" /\ button = "logout-btn" -> "landing"
      [] page = "dashboard" /\ button = "view-profile-btn" -> "user-setup"
      [] page = "product-analyzer" /\ button = "back-to-dashboard" -> "dashboard"
      [] page = "product-analyzer" /\ button = "analyze-btn" -> "product-scanner"
      [] page = "product-scanner" /\ button = "back-to-analyzer" -> "product-analyzer"
      [] OTHER -> "none"

RouterButtons == {"get-started-btn", "back-to-home-btn", "analyze-products-btn",
                  "logout-btn", "view-profile-btn", "back-to-dashboard",
                  "analyze-btn", "back-to-analyzer"}

\* loadPage up to its fetch (lines 22-31): the loader is shown, the
\* container hidden, the request is in flight.  started, lastStarted,
\* failures and overlapped (a call started while another was in flight) are
\* history variables.
StartLoad(r, page) ==
    [r EXCEPT !.loaderHidden = FALSE, !.containerHidden = TRUE,
              !.loads = @ \cup {[n |-> r.started + 1, page |-> page]},
              !.started = @ + 1, !.lastStarted = page,
              !.overlapped = @ \/ r.loads # {}]

\* loadPage after a successful fetch (lines 36-53).
Installed(r, f) ==
    [r EXCEPT !.view = [kind |-> "page", page |-> f.page],
              !.loaderHidden = TRUE, !.containerHidden = FALSE,
              !.currentPage = <<f.page>>, !.loads = @ \ {f}]

\* An error view that leaves the loader on display.
ShowErrorUnderLoader(r) ==
    [r EXCEPT !.view = [kind |-> "error", page |-> "none"],
              !.containerHidden = FALSE]

\* showError (lines 346-366)
ShowError(r) ==
    [r EXCEPT !.view = [kind |-> "error", page |-> "none"],
              !.loaderHidden = TRUE, !.containerHidden = FALSE]

\* new RekadaRouter(): currentPage is null and init has called loadPage, of
\* the dashboard when a profile is stored and of the landing page otherwise.
\* started counts the loadPage calls of all routers so far.
NewRouter(profile, started) ==
    StartLoad([currentPage |-> <<>>, view |-> [kind |-> "empty", page |-> "none"],
               loaderHidden |-> FALSE, containerHidden |-> TRUE, loads |-> {},
               started |-> started, lastStarted |-> "none", timers |-> 0,
               failures |-> 0, overlapped |-> FALSE],
              IF profile # <<>> THEN "dashboard" ELSE "landing")

\* The router on an empty localStorage.
InitialRouter == NewRouter(<<>>, 0)

\* ------------------------------------------------------------------- Init
\* Both pages after their DOMContentLoaded handlers ran on an empty
\* localStorage.
Init ==
    /\ currentPage = "home"
    /\ userProfile = <<>>
    /\ currentAnalysis = <<>>
    /\ intakeHistory = <<>>
    /\ localStorage = EmptyStorage
    /\ dom = UpdateUserInterface(InitialDom, <<>>, <<>>)
    /\ toast = NoToast
    /\ thrown = "none"
    /\ clock = 0
    /\ logged = <<>>
    /\ lastLog = <<>>
    /\ resultsContainer = Container("hidden", <<>>, "")
    /\ analyzeFetches = {}
    /\ logFetches = {}
    /\ scannerToast = NoToast
    /\ download = <<>>
    /\ serverIntake = {}
    /\ runsStarted = 0
    /\ logsSent = 0
    /\ scanLastLog = <<>>
    /\ displayedRun = 0
    /\ peer = [currentPage |-> "home", userProfile |-> <<>>,
               currentAnalysis |-> <<>>, intakeHistory |-> <<>>,
               dom |-> UpdateUserInterface(InitialDom, <<>>, <<>>),
               toast |-> NoToast, thrown |-> "none", logged |-> <<>>]
    /\ pipeline = IdlePipeline
    /\ personalized = <<>>
    /\ wizard = ClosedWizard(0)
    /\ router = InitialRouter

\* ---------------------------------------------------------- main.js actions
\* The wall clock advances between two handlers.
Tick ==
    /\ clock < MaxClock
    /\ clock' = clock + 1
    /\ UNCHANGED <<mainVars, localStorage, dom, toast, thrown, mainHist, scannerVars, peer, pipeline, appVars>>

\* Another page of the application stores the product to analyse.
StoreCurrentProduct(p) ==
    /\ localStorage' = [localStorage EXCEPT !.currentProduct = <<StringifyObject(p)>>]
    /\ UNCHANGED <<mainVars, mainEnv, mainHist, scannerVars, peer, pipeline, appVars>>

\* DOMContentLoaded: fresh module state, loadUserData, initializeApp.
PageLoad ==
    LET profile == IF localStorage.userProfile # <<>>
                   THEN <<ParseObject(localStorage.userProfile[1])>> ELSE <<>>
        page == IF localStorage.userProfile # <<>> THEN "dashboard" ELSE "home"
        history == IF localStorage.intakeHistory # <<>>
                   THEN ParseHistory(localStorage.intakeHistory[1]) ELSE <<>>
    IN  /\ userProfile' = profile
        /\ currentPage' = page
        /\ intakeHistory' = history
        /\ currentAnalysis' = <<>>
        /\ dom' = UpdateUserInterface(InitialDom, profile, history)
        /\ toast' = NoToast
        /\ thrown' = "none"
        /\ UNCHANGED <<localStorage, clock, mainHist, scannerVars, peer, pipeline, appVars>>

NavigateToPage(page) ==
    /\ currentPage' = page
    /\ dom' = UpdateUserInterface(dom, userProfile, intakeHistory)
    /\ toast' = NoToast
    /\ thrown' = "none"
    /\ UNCHANGED <<userProfile, currentAnalysis, intakeHistory, localStorage,
                   clock, mainHist, scannerVars, peer, pipeline, appVars>>

\* storageOk = FALSE: localStorage.setItem throws, which ends the handler
\* before the toast and the navigation.  Of the profile the model keeps the
\* name and age fields.
HandleProfileSubmit(form, storageOk) ==
    LET profile == [fullName |-> <<form.firstName, form.lastName>>,
                    firstName |-> form.firstName, lastName |-> form.lastName,
                    age |-> form.age]
    IN  /\ userProfile' = <<profile>>
        /\ IF storageOk
           THEN /\ localStorage' = [localStorage EXCEPT
                                       !.userProfile = <<StringifyObject(profile)>>]
                /\ toast' = Toast("Comprehensive profile created successfully!", "success")
                /\ currentPage' = "dashboard"
                /\ dom' = UpdateUserInterface(dom, <<profile>>, intakeHistory)
                /\ thrown' = "none"
           ELSE /\ toast' = NoToast
                /\ thrown' = "QuotaExceededError"
                /\ UNCHANGED <<localStorage, currentPage, dom>>
        /\ UNCHANGED <<currentAnalysis, intakeHistory, clock, mainHist, scannerVars, peer, pipeline, appVars>>

\* A logout that leaves the current analysis in memory.
HandleLogoutKeepingAnalysis ==
    /\ localStorage' = [localStorage EXCEPT !.userProfile = <<>>,
                                            !.intakeHistory = <<>>,
                                            !.currentProduct = <<>>]
    /\ userProfile' = <<>>
    /\ intakeHistory' = <<>>
    /\ toast' = Toast("Logged out successfully!", "success")
    /\ currentPage' = "home"
    /\ dom' = UpdateUserInterface(dom, <<>>, <<>>)
    /\ thrown' = "none"
    /\ logged' = <<>>
    /\ lastLog' = <<>>
    /\ UNCHANGED <<currentAnalysis, clock, scannerVars, peer, pipeline, appVars>>

HandleLogout ==
    /\ localStorage' = [localStorage EXCEPT !.userProfile = <<>>,
                                            !.intakeHistory = <<>>,
                                            !.currentProduct = <<>>]
    /\ userProfile' = <<>>
    /\ intakeHistory' = <<>>
    /\ currentAnalysis' = <<>>
    /\ toast' = Toast("Logged out successfully!", "success")
    /\ currentPage' = "home"
    /\ dom' = UpdateUserInterface(dom, <<>>, <<>>)
    /\ thrown' = "none"
    /\ logged' = <<>>
    /\ lastLog' = <<>>
    /\ UNCHANGED <<clock, scannerVars, peer, pipeline, appVars>>

AnalyzeProduct(in) ==
    LET productData == IF localStorage.currentProduct # <<>>
                       THEN ParseObject(localStorage.currentProduct[1])
                       ELSE [name |-> Undefined]
        analysis == [id |-> NumberToString(clock), product |-> productData,
                     category |-> in.category, overallScore |-> in.score,
                     recommendation |-> in.recommendation,
                     analysis |-> GenerateMockAnalysis(in.category),
                     timestamp |-> ToISOString(clock)]
    IN  /\ IF Falsy(productData.name)
           THEN /\ toast' = Toast("No product data found. Please enter product details first.", "error")
                /\ UNCHANGED <<currentAnalysis, currentPage, dom>>
           ELSE /\ currentAnalysis' = <<analysis>>
                /\ toast' = Toast("Product analyzed successfully!", "success")
                /\ currentPage' = "report"
                /\ dom' = UpdateUserInterface(dom, userProfile, intakeHistory)
        /\ thrown' = "none"
        /\ UNCHANGED <<userProfile, intakeHistory, localStorage, clock, mainHist,
                       scannerVars, peer, pipeline, appVars>>

SaveToIntake(storageOk) ==
    /\ IF currentAnalysis = <<>>
       THEN /\ storageOk
            /\ toast' = Toast("No analysis to save", "error")
            /\ thrown' = "none"
            /\ lastLog' = <<[analysis |-> <<>>, stored |-> FALSE,
                             report |-> "error", afterFailure |-> FALSE]>>
            /\ UNCHANGED <<intakeHistory, localStorage, dom, logged>>
       ELSE /\ Len(logged) < MaxLogged
            /\ LET record == IntakeRecord(currentAnalysis[1], clock)
                   history == Unshift(intakeHistory, record)
               IN  /\ intakeHistory' = history
                   /\ logged' = Append(logged, record)
                   /\ PersistAndReport(history, storageOk)
                   /\ lastLog' =
                        <<[analysis |-> currentAnalysis,
                           stored |-> storageOk,
                           report |-> IF thrown' # "none" THEN "exception"
                                      ELSE toast'[1].type,
                           afterFailure |->
                              /\ lastLog # <<>>
                              /\ lastLog[1].analysis = currentAnalysis
                              /\ ~lastLog[1].stored \/ lastLog[1].afterFailure]>>
    /\ UNCHANGED <<currentPage, userProfile, currentAnalysis, clock, scannerVars, peer, pipeline, appVars>>

\* The intake tracker of main.js: every operation that reads or writes the
\* history, the current analysis or the dashboard counters.
Next ==
    \/ Tick
    \/ \E p \in Products : StoreCurrentProduct(p)
    \/ PageLoad
    \/ \E page \in Pages : NavigateToPage(page)
    \/ HandleLogout
    \/ \E in \in AnalysisInputs : AnalyzeProduct(in)
    \/ \E ok \in BOOLEAN : SaveToIntake(ok)

\* The same with the profile form of the setup page.
ProfileNext ==
    \/ Next
    \/ \E form \in Forms, ok \in BOOLEAN : HandleProfileSubmit(form, ok)

\* ------------------------------------------------- product-scanner.js values
\* A response body of POST /api/analyze/image after response.json().  A
\* number is <<>> when the key is missing; classification_confidence is in
\* thousandths and healthiness_rating in tenths, so that 1.5 and 7.5 can be
\* written.  A string is Undefined when the key is missing.
Response(success, error, type, confidence, rating, fda) ==
    [success |-> success, error |-> error, product_type |-> type,
     classification_confidence |-> confidence, healthiness_rating |-> rating,
     fda_approval |-> fda, warnings_for_user |-> <<>>]

\* The same body with a warnings_for_user list.  A warning is a string; the
\* model writes it with the class of the hit it reports.
WithWarnings(data, warnings) == [data EXCEPT !.warnings_for_user = <<warnings>>]

Warning(class, text) == [class |-> class, text |-> text]

\* Lists a reply may carry: one in the order allergen, avoid, dietary,
\* health goal (which is not the alphabetical order of its texts), and one
\* in another order.
WarningLists ==
    {<<Warning("allergen", "Peanuts"), Warning("avoid", "Sugar"),
       Warning("dietary", "Gelatin"), Warning("goal", "Calories")>>,
     <<Warning("goal", "Calories"), Warning("allergen", "Peanuts")>>}

Responses ==
    {Response(<<TRUE>>, Undefined, "drink", <<870>>, <<70>>, "Approved"),
     Response(<<TRUE>>, Undefined, Undefined, <<>>, <<>>, Undefined),
     Response(<<TRUE>>, Undefined, "unknown", <<0>>, <<0>>, ""),
     Response(<<TRUE>>, Undefined, "food", <<1500>>, <<100>>, "Likely"),
     Response(<<TRUE>>, Undefined, "beauty", <<1000>>, <<75>>, "Not Approved"),
     Response(<<TRUE>>, Undefined, "food", <<505>>, <<110>>, "Approved"),
     Response(<<TRUE>>, Undefined, "food", <<-200>>, <<-10>>, "Approved"),
     Response(<<FALSE>>, "No text found", Undefined, <<>>, <<>>, Undefined),
     Response(<<FALSE>>, Undefined, "drink", <<870>>, <<70>>, "Approved"),
     Response(<<>>, Undefined, "drink", <<870>>, <<70>>, "Approved")}
    \cup {WithWarnings(Response(<<TRUE>>, Undefined, "food", <<910>>, <<40>>, "Approved"), w) :
             w \in WarningLists}

\* The response the logging scenarios use: one that is displayed.
LogResponses ==
    {Response(<<TRUE>>, Undefined, "drink", <<870>>, <<70>>, "Approved")}

\* The body used where a fetch is rejected and no body is read.
NoBody == Response(<<>>, Undefined, Undefined, <<>>, <<>>, Undefined)

\* What may be stored under 'rekada_user_id': an id, or an empty string.
UserIds == {"u1", ""}

\* How a log request can end: the backend stores the entry and says so;
\* it refuses with or without an error text; the request never arrives;
\* the entry is stored but the reply is lost; the reply is not JSON.
LogOutcomes == {"stored", "refused", "refusedSilently", "lost",
                "storedReplyLost", "notJson"}

\* if (data.success)
Truthy(flag) == flag = <<TRUE>>

ScanToast(text, detail, type) ==
    <<[message |-> <<text, detail>>, type |-> type]>>

\* String.prototype.toUpperCase on the product types.
ToUpperCase(s) ==
    CASE s = "drink" -> "DRINK" [] s = "food" -> "FOOD"
      [] s = "beauty" -> "BEAUTY" [] s = "unknown" -> "UNKNOWN"

\* Math.round(x * 100) for x given in thousandths: halves round up.
RoundPercent(thousandths) == (thousandths + 5) \div 10

\* ToIntegerOrInfinity of a number given in tenths: truncation towards zero.
Truncate(tenths) == IF tenths >= 0 THEN tenths \div 10 ELSE -((-tenths) \div 10)

\* (data.product_type || 'unknown').toUpperCase()
ProductTypeOf(data) ==
    ToUpperCase(IF Falsy(data.product_type) THEN "unknown" ELSE data.product_type)

\* Math.round((data.classification_confidence || 0) * 100)
ConfidencePercentOf(data) ==
    RoundPercent(IF data.classification_confidence \in {<<>>, <<0>>} THEN 0
                 ELSE data.classification_confidence[1])

\* A default applied only to a missing key.
HealthinessRatingIfMissing(data) ==
    IF data.healthiness_rating = <<>> THEN 50 ELSE data.healthiness_rating[1]

\* data.healthiness_rating || 5, in tenths
HealthinessRatingOf(data) ==
    IF data.healthiness_rating \in {<<>>, <<0>>} THEN 50
    ELSE data.healthiness_rating[1]

\* data.fda_approval || 'Unverified'
FdaApprovalOf(data) ==
    IF Falsy(data.fda_approval) THEN "Unverified" ELSE data.fda_approval

\* A presentation that lists the warnings last to first.
WarningItemsReversed(data) ==
    IF data.warnings_for_user = <<>> THEN <<>>
    ELSE [i \in 1..Len(data.warnings_for_user[1]) |->
            [item |-> data.warnings_for_user[1][Len(data.warnings_for_user[1]) + 1 - i]]]

\* (data.warnings_for_user || []).map(w => `<li>...`), and forEach at 653-657:
\* one item per warning.
WarningItems(data) ==
    IF data.warnings_for_user = <<>> THEN <<>>
    ELSE [i \in 1..Len(data.warnings_for_user[1]) |->
            [item |-> data.warnings_for_user[1][i]]]

\* Lines 317-331 and 585-595: the fields of the report, and whether
\* String.prototype.repeat throws its RangeError (a negative count).
ReportFields(data) ==
    LET rating == HealthinessRatingOf(data)
        filled == Truncate(rating)
        empty == Truncate(100 - rating)
    IN  [thrown |-> filled < 0 \/ empty < 0,
         data |-> data,
         productType |-> ProductTypeOf(data),
         confidencePercent |-> ConfidencePercentOf(data),
         healthinessRating |-> rating,
         filledStars |-> filled,
         emptyStars |-> empty,
         fdaApproval |-> FdaApprovalOf(data),
         warnings |-> WarningItems(data)]

DisplayAnalysisResults(data) == ReportFields(data)

GenerateMarkdownReport(data) == ReportFields(data)

\* What the analyze promise chain leaves: the container and the toast.
AnalyzeFailure(message) ==
    [container |-> Container("error", <<>>, message),
     toast |-> ScanToast("Failed to analyze image: ", message, "error")]

\* A chain that displays whatever body arrives.
AnalyzeOutcomeTrusting(rejected, data) ==
    IF DisplayAnalysisResults(data).thrown
    THEN AnalyzeFailure("Invalid count value")
    ELSE [container |-> Container("result", <<DisplayAnalysisResults(data)>>, ""),
          toast |-> ScanToast("Analysis complete!", "", "success")]

\* A chain that treats an unclassified product as a failed analysis.
AnalyzeOutcomeRejectingUnknown(rejected, data) ==
    IF rejected THEN AnalyzeFailure("Failed to fetch")
    ELSE IF Truthy(data.success) /\ data.product_type \notin {Undefined, "unknown"}
    THEN IF DisplayAnalysisResults(data).thrown
         THEN AnalyzeFailure("Invalid count value")
         ELSE [container |-> Container("result", <<DisplayAnalysisResults(data)>>, ""),
               toast |-> ScanToast("Analysis complete!", "", "success")]
    ELSE AnalyzeFailure(IF Falsy(data.error) THEN "Analysis failed" ELSE data.error)

\* Lines 143-163.  rejected: fetch or response.json() rejected.
AnalyzeOutcome(rejected, data) ==
    IF rejected THEN AnalyzeFailure("Failed to fetch")
    ELSE IF Truthy(data.success)
    THEN IF DisplayAnalysisResults(data).thrown
         THEN AnalyzeFailure("Invalid count value")
         ELSE [container |-> Container("result", <<DisplayAnalysisResults(data)>>, ""),
               toast |-> ScanToast("Analysis complete!", "", "success")]
    ELSE AnalyzeFailure(IF Falsy(data.error) THEN "Analysis failed" ELSE data.error)

\* The backend's intake log, as far as the page can tell: the entry is
\* stored exactly in the outcomes that store it.
ServerLogIntake(store, entry, outcome) ==
    IF outcome \in {"stored", "storedReplyLost"} THEN store \cup {entry} ELSE store

\* The reply the page receives: whether the promise is rejected, and the body.
LogReply(outcome) ==
    [rejected |-> outcome \in {"lost", "storedReplyLost", "notJson"},
     data |-> CASE outcome = "stored" -> [success |-> <<TRUE>>, error |-> Undefined]
                [] outcome = "refused" -> [success |-> <<FALSE>>, error |-> "Storage error"]
                [] OTHER -> [success |-> <<>>, error |-> Undefined]]

\* Lines 534-545 of logIntake.
LogToast(reply) ==
    IF reply.rejected
    THEN ScanToast("Failed to log intake: ", "Failed to fetch", "error")
    ELSE IF Truthy(reply.data.success)
    THEN ScanToast("Product logged to history!", "", "success")
    ELSE ScanToast("Failed to log intake: ",
                   IF Falsy(reply.data.error) THEN "Failed to log intake"
                   ELSE reply.data.error, "error")

\* A handler that shows the alert of the analyze chain when a log fails.
LogContainerAlerting(container, reply) ==
    IF reply.rejected \/ ~Truthy(reply.data.success)
    THEN Container("error", <<>>, "Failed to log intake")
    ELSE container

\* Lines 534-545 write no element of the page: the container stays.
LogContainer(container, reply) == container

\* The outcome of a log attempt of the scanner page, for the record;
\* afterFailure: the attempt follows failed attempts for the same analysis.
ScanLogRecord(analysis, stored, report) ==
    <<[analysis |-> analysis, stored |-> stored, report |-> report,
       afterFailure |-> /\ scanLastLog # <<>>
                        /\ scanLastLog[1].analysis = analysis
                        /\ ~scanLastLog[1].stored \/ scanLastLog[1].afterFailure]>>

\* if (user_id), if (!user_id): getItem gave a non-empty string.
HasUserId(stored) == stored # <<>> /\ ~Falsy(stored[1])

\* A form that gets whatever string is stored.
FormUserIdOfAnyString(stored) == stored

\* Lines 116-124: the user_id field of the form, <<>> when it is not appended.
FormUserId(stored) == IF HasUserId(stored) THEN stored ELSE <<>>

\* A chain whose .catch sends the failed request again.
InFlightAfterResending(fetches, f, failed) ==
    IF failed THEN fetches ELSE fetches \ {f}

\* The requests in flight once request f has settled: neither chain (143-163,
\* 534-545) calls fetch again, whether the request failed or not.
InFlightAfter(fetches, f, failed) == fetches \ {f}

\* --------------------------------------------------- product-scanner.js actions
notScanner == <<mainVars, mainEnv, mainHist, peer, pipeline, appVars>>

\* Some other page stores the user id that the scanner reads.
SetUserId(u) ==
    /\ localStorage.rekada_user_id = <<>>
    /\ localStorage' = [localStorage EXCEPT !.rekada_user_id = <<u>>]
    /\ UNCHANGED <<notScanner, scannerVars>>

ProcessUploadedImage ==
    /\ runsStarted < MaxRuns
    /\ runsStarted' = runsStarted + 1
    /\ displayedRun' = runsStarted + 1
    /\ scannerToast' = ScanToast("Processing image...", "", "info")
    /\ resultsContainer' = Container("loading", <<>>, "")
    /\ analyzeFetches' = analyzeFetches \cup
          {[run |-> runsStarted + 1, user_id |-> FormUserId(localStorage.rekada_user_id)]}
    /\ UNCHANGED <<notScanner, localStorage, logFetches, download, serverIntake,
                   logsSent, scanLastLog>>

\* The analyze request of one run settles.
AnalyzeSettle(f, rejected, data) ==
    /\ f \in analyzeFetches
    /\ analyzeFetches' = InFlightAfter(analyzeFetches, f,
            AnalyzeOutcome(rejected, data).container.kind = "error")
    /\ resultsContainer' = AnalyzeOutcome(rejected, data).container
    /\ scannerToast' = AnalyzeOutcome(rejected, data).toast
    /\ displayedRun' = f.run
    /\ UNCHANGED <<notScanner, localStorage, logFetches, download, serverIntake,
                   runsStarted, logsSent, scanLastLog>>

\* A click on "Log to History": the button is part of a displayed report and
\* passes the report's data.
LogIntake ==
    /\ resultsContainer.kind = "result"
    /\ IF ~HasUserId(localStorage.rekada_user_id)
       THEN /\ scannerToast' = ScanToast("Please set up your profile first", "", "warning")
            /\ scanLastLog' = ScanLogRecord(resultsContainer.view[1].data, FALSE, "warning")
            /\ UNCHANGED <<logFetches, logsSent>>
       ELSE /\ logsSent < MaxLogRequests
            /\ logsSent' = logsSent + 1
            /\ logFetches' = logFetches \cup
                  {[n |-> logsSent + 1, user_id |-> localStorage.rekada_user_id[1],
                    analysis_result |-> resultsContainer.view[1].data]}
            /\ UNCHANGED <<scannerToast, scanLastLog>>
    /\ UNCHANGED <<notScanner, localStorage, resultsContainer, analyzeFetches,
                   download, serverIntake, runsStarted, displayedRun>>

\* A log request settles.
LogSettle(f, outcome) ==
    /\ f \in logFetches
    /\ logFetches' = InFlightAfter(logFetches, f,
            LogToast(LogReply(outcome))[1].type = "error")
    /\ serverIntake' = ServerLogIntake(serverIntake, f, outcome)
    /\ scannerToast' = LogToast(LogReply(outcome))
    /\ resultsContainer' = LogContainer(resultsContainer, LogReply(outcome))
    /\ scanLastLog' = ScanLogRecord(f.analysis_result, f \in serverIntake',
                                    scannerToast'[1].type)
    /\ UNCHANGED <<notScanner, localStorage, analyzeFetches, download,
                   runsStarted, logsSent, displayedRun>>

\* A click on "Download MD Report".  The RangeError of repeat would leave
\* the handler before anything is written.
DownloadMarkdown ==
    /\ resultsContainer.kind = "result"
    /\ LET md == GenerateMarkdownReport(resultsContainer.view[1].data)
       IN  IF md.thrown
           THEN UNCHANGED <<download, scannerToast>>
           ELSE /\ download' = <<md>>
                /\ scannerToast' = ScanToast("Markdown report downloaded!", "", "success")
    /\ UNCHANGED <<notScanner, localStorage, resultsContainer, analyzeFetches,
                   logFetches, serverIntake, runsStarted, logsSent, scanLastLog,
                   displayedRun>>

\* The scanner page while the reply to its log request is still awaited: one
\* request is sent and stays in flight; LogNext below sends more and settles
\* them.
ScannerNext ==
    \/ \E u \in UserIds : SetUserId(u)
    \/ ProcessUploadedImage
    \/ \E f \in analyzeFetches, data \in Responses : AnalyzeSettle(f, FALSE, data)
    \/ \E f \in analyzeFetches : AnalyzeSettle(f, TRUE, NoBody)
    \/ (logsSent < 1 /\ LogIntake)
    \/ DownloadMarkdown

Spec == Init /\ [][Next]_vars

LogInputs == {[category |-> "food", score |-> 1, recommendation |-> "safe"]}

LogNext ==
    \/ \E p \in Products : StoreCurrentProduct(p)
    \/ \E in \in LogInputs : AnalyzeProduct(in)
    \/ \E ok \in BOOLEAN : SaveToIntake(ok)
    \/ \E u \in UserIds : SetUserId(u)
    \/ (runsStarted < 1 /\ ProcessUploadedImage)
    \/ \E f \in analyzeFetches, data \in LogResponses : AnalyzeSettle(f, FALSE, data)
    \/ LogIntake
    \/ \E f \in logFetches, outcome \in LogOutcomes : LogSettle(f, outcome)

LogSpec == Init /\ [][LogNext]_vars

\* ------------------------------------------- main.js in a second tab (peer)
\* The same handlers run in another tab on the same localStorage; peer.logged
\* is a history variable: the records that tab created, oldest first.
PeerInputs == {[category |-> "beauty", score |-> 50, recommendation |-> "caution"]}

peerFrame == <<mainVars, mainEnv, mainHist, scannerVars, pipeline, appVars>>

\* DOMContentLoaded in the second tab: loadUserData and initializeApp.
PeerPageLoad ==
    LET profile == IF localStorage.userProfile # <<>>
                   THEN <<ParseObject(localStorage.userProfile[1])>> ELSE <<>>
        history == IF localStorage.intakeHistory # <<>>
                   THEN ParseHistory(localStorage.intakeHistory[1]) ELSE <<>>
    IN  /\ peer' = [peer EXCEPT
               !.userProfile = profile,
               !.currentPage = IF profile # <<>> THEN "dashboard" ELSE "home",
               !.intakeHistory = history,
               !.currentAnalysis = <<>>,
               !.dom = UpdateUserInterface(InitialDom, profile, history),
               !.toast = NoToast,
               !.thrown = "none"]
        /\ UNCHANGED <<peerFrame, localStorage>>

PeerAnalyzeProduct(in) ==
    LET productData == IF localStorage.currentProduct # <<>>
                       THEN ParseObject(localStorage.currentProduct[1])
                       ELSE [name |-> Undefined]
        analysis == [id |-> NumberToString(clock), product |-> productData,
                     category |-> in.category, overallScore |-> in.score,
                     recommendation |-> in.recommendation,
                     analysis |-> GenerateMockAnalysis(in.category),
                     timestamp |-> ToISOString(clock)]
    IN  /\ peer' = IF Falsy(productData.name)
                   THEN [peer EXCEPT
                           !.toast = Toast("No product data found. Please enter product details first.", "error"),
                           !.thrown = "none"]
                   ELSE [peer EXCEPT
                           !.currentAnalysis = <<analysis>>,
                           !.toast = Toast("Product analyzed successfully!", "success"),
                           !.currentPage = "report",
                           !.dom = UpdateUserInterface(peer.dom, peer.userProfile,
                                                       peer.intakeHistory),
                           !.thrown = "none"]
        /\ UNCHANGED <<peerFrame, localStorage>>

\* saveToIntake in the second tab: it writes the history that tab holds.
PeerSaveToIntake(storageOk) ==
    /\ IF peer.currentAnalysis = <<>>
       THEN /\ storageOk
            /\ peer' = [peer EXCEPT !.toast = Toast("No analysis to save", "error"),
                                    !.thrown = "none"]
            /\ UNCHANGED localStorage
       ELSE /\ Len(peer.logged) < MaxLogged
            /\ LET record == IntakeRecord(peer.currentAnalysis[1], clock)
                   history == Unshift(peer.intakeHistory, record)
               IN  IF storageOk
                   THEN /\ localStorage' = [localStorage EXCEPT
                               !.intakeHistory = <<StringifyHistory(history)>>]
                        /\ peer' = [peer EXCEPT
                               !.intakeHistory = history,
                               !.logged = Append(peer.logged, record),
                               !.toast = Toast("Product saved to intake history!", "success"),
                               !.dom = UpdateDashboardStats(peer.dom, history),
                               !.thrown = "none"]
                   ELSE /\ peer' = [peer EXCEPT
                               !.intakeHistory = history,
                               !.logged = Append(peer.logged, record),
                               !.toast = NoToast,
                               !.thrown = "QuotaExceededError"]
                        /\ UNCHANGED localStorage
    /\ UNCHANGED peerFrame

\* Two tabs of the main.js pages on one localStorage.
TabsNext ==
    \/ \E p \in Products : StoreCurrentProduct(p)
    \/ PageLoad
    \/ \E in \in LogInputs : AnalyzeProduct(in)
    \/ \E ok \in BOOLEAN : SaveToIntake(ok)
    \/ PeerPageLoad
    \/ \E in \in PeerInputs : PeerAnalyzeProduct(in)
    \/ \E ok \in BOOLEAN : PeerSaveToIntake(ok)

TabsSpec == Init /\ [][TabsNext]_vars

\* The session of one tab, from page load to logout, with a second tab
\* writing the same localStorage.
SessionNext ==
    \/ \E p \in Products : StoreCurrentProduct(p)
    \/ PageLoad
    \/ \E in \in LogInputs : AnalyzeProduct(in)
    \/ \E ok \in BOOLEAN : SaveToIntake(ok)
    \/ HandleLogout
    \/ \E in \in PeerInputs : PeerAnalyzeProduct(in)
    \/ PeerSaveToIntake(TRUE)

SessionSpec == Init /\ [][SessionNext]_vars

\* The scanner page with its log replies and with time passing.  The event
\* loop runs a handler once its reply has arrived, and time always passes;
\* whether a reply arrives is up to the network, so only the clock is fair.
\* The page sets no timer and passes no AbortSignal to fetch, so no step of
\* the page is enabled by the passing of time.
TimedNext ==
    \/ ScannerNext
    \/ \E f \in logFetches, outcome \in LogOutcomes : LogSettle(f, outcome)
    \/ Tick

TimedSpec == Init /\ [][TimedNext]_vars /\ WF_vars(Tick)

\* The scanner page alone, with replies to both kinds of request.
RetryResponses ==
    {Response(<<TRUE>>, Undefined, "drink", <<870>>, <<70>>, "Approved"),
     Response(<<FALSE>>, "No text found", Undefined, <<>>, <<>>, Undefined)}

RetryNext ==
    \/ \E u \in UserIds : SetUserId(u)
    \/ ProcessUploadedImage
    \/ \E f \in analyzeFetches, data \in RetryResponses : AnalyzeSettle(f, FALSE, data)
    \/ \E f \in analyzeFetches : AnalyzeSettle(f, TRUE, NoBody)
    \/ LogIntake
    \/ \E f \in logFetches, outcome \in LogOutcomes : LogSettle(f, outcome)

RetrySpec == Init /\ [][RetryNext]_vars

\* ------------------------------------------------ the setup wizard: actions
wizardFrame == <<mainVars, mainEnv, mainHist, scannerVars, peer, pipeline, personalized>>

\* DOMContentLoaded of the setup page served with user-setup.js.
SetupPageLoad ==
    /\ wizard' = OpenedWizard("user-setup.js", wizard.completions)
    /\ UNCHANGED <<wizardFrame, localStorage, router>>

\* The user types into #fullName and #age.
EditForm(form) ==
    /\ wizard.impl # "none"
    /\ form # wizard.form
    /\ wizard' = [wizard EXCEPT !.form = form]
    /\ UNCHANGED <<wizardFrame, localStorage, router>>

\* A Previous without its guard.
ClickPrevUnguarded ==
    /\ wizard.impl # "none"
    /\ wizard' = [wizard EXCEPT !.currentStep = @ - 1]
    /\ UNCHANGED <<wizardFrame, localStorage, router>>

\* A click on Previous.
ClickPrev ==
    /\ wizard.impl # "none"
    /\ wizard' = IF wizard.currentStep > 1
                 THEN [wizard EXCEPT !.currentStep = @ - 1]
                 ELSE wizard
    /\ UNCHANGED <<wizardFrame, localStorage, router>>

\* A click on Next.
ClickNext ==
    /\ wizard.impl # "none"
    /\ wizard' =
          IF ValidateStep(wizard.currentStep, wizard.form)
             /\ wizard.currentStep < totalSteps
          THEN [wizard EXCEPT !.currentStep = @ + 1,
                              !.leftStepOne = IF wizard.currentStep = 1
                                              THEN <<wizard.form>> ELSE @]
          ELSE IF ~ValidateStep(wizard.currentStep, wizard.form)
          THEN [wizard EXCEPT !.toast = NextRefusalToast(wizard.impl)]
          ELSE wizard
    /\ UNCHANGED <<wizardFrame, localStorage, router>>

\* A click on Complete.  A stored profile is followed, 1500 ms later, by the
\* move to the dashboard: a redirect in user-setup.js, a loadPage in
\* router.js.
ClickComplete ==
    /\ wizard.impl # "none"
    /\ LET stores == CompletionStores(wizard.impl, wizard.currentStep, wizard.form)
       IN  IF stores
           THEN /\ wizard.completions < MaxCompletions
                /\ localStorage' =
                      [localStorage EXCEPT !.rekada_user_profile =
                          <<StringifyObject(WizardProfile(wizard.impl, wizard.form, clock))>>]
                /\ wizard' = [wizard EXCEPT
                                !.toast = Toast("Profile created successfully!", "success"),
                                !.redirect = @ \/ wizard.impl = "user-setup.js",
                                !.completions = @ + 1]
                /\ router' = IF wizard.impl = "router.js"
                             THEN [router EXCEPT !.timers = @ + 1] ELSE router
           ELSE /\ wizard' = [wizard EXCEPT !.toast = RefusalToast(wizard.impl)]
                /\ UNCHANGED <<localStorage, router>>
    /\ UNCHANGED wizardFrame

\* The timer of user-setup.js: window.location.href = '/dashboard'.
SetupRedirect ==
    /\ wizard.impl = "user-setup.js"
    /\ wizard.redirect
    /\ wizard' = ClosedWizard(wizard.completions)
    /\ UNCHANGED <<wizardFrame, localStorage, router>>

\* ------------------------------------------------------ the router: actions
\* A click on a button of the page on display.  The logout button removes
\* the profile first.  A category button of the product analyzer carries
\* both listeners of initProductAnalyzerPage (377-395), so one click calls
\* loadProductScanner twice.
RouterClick(button) ==
    /\ router.view.kind = "page"
    /\ ~router.containerHidden
    /\ ButtonTarget(router.view.page, button) # "none"
    /\ router.started + (IF button = "analyze-btn" THEN 2 ELSE 1) <= MaxLoads
    /\ router' =
          IF button = "analyze-btn"
          THEN StartLoad(StartLoad(router, "product-scanner"), "product-scanner")
          ELSE StartLoad(router, ButtonTarget(router.view.page, button))
    /\ localStorage' = IF button = "logout-btn"
                       THEN [localStorage EXCEPT !.rekada_user_profile = <<>>]
                       ELSE localStorage
    /\ UNCHANGED <<wizardFrame, wizard>>

\* The page is loaded again (the error view offers it: location.reload()):
\* DOMContentLoaded constructs a new router; requests and timers of the old
\* page are gone.
RouterBoot ==
    /\ router.started < MaxLoads
    /\ router' = NewRouter(localStorage.rekada_user_profile, router.started)
    /\ wizard' = IF wizard.impl = "router.js"
                 THEN ClosedWizard(wizard.completions) ELSE wizard
    /\ UNCHANGED <<wizardFrame, localStorage>>

\* The timer of handleProfileCompletion (258-260) fires.
DashboardTimer ==
    /\ router.timers > 0
    /\ router.started < MaxLoads
    /\ router' = StartLoad([router EXCEPT !.timers = @ - 1], "dashboard")
    /\ UNCHANGED <<wizardFrame, localStorage, wizard>>

\* The fetch of a loadPage call settles.  ok: the response arrived with an
\* ok status and its text could be read.  Installing a page replaces the
\* content of the container, and with it a wizard of router.js; installing
\* the setup page runs initUserSetupPage.
LoadSettle(f, ok) ==
    /\ f \in router.loads
    /\ router' = IF ok THEN Installed(router, f)
                 ELSE [ShowError(router) EXCEPT !.loads = @ \ {f},
                                                !.failures = @ + 1]
    /\ wizard' = IF ok /\ f.page = "user-setup"
                 THEN OpenedWizard("router.js", wizard.completions)
                 ELSE IF wizard.impl = "router.js"
                 THEN ClosedWizard(wizard.completions)
                 ELSE wizard
    /\ UNCHANGED <<wizardFrame, localStorage>>

RouterNext ==
    \/ RouterBoot
    \/ \E button \in RouterButtons : RouterClick(button)
    \/ DashboardTimer
    \/ \E f \in router.loads, ok \in BOOLEAN : LoadSettle(f, ok)

WizardClicks ==
    \/ \E form \in WizardForms : EditForm(form)
    \/ ClickPrev
    \/ ClickNext
    \/ ClickComplete

\* Both wizards: the page with user-setup.js, and the setup page of the
\* router, reached from its landing page.
WizardNext ==
    \/ SetupPageLoad
    \/ SetupRedirect
    \/ WizardClicks
    \/ RouterClick("get-started-btn")
    \/ \E f \in router.loads : LoadSettle(f, TRUE)

WizardSpec == Init /\ [][WizardNext]_vars

\* Setup, then a scan and its log: the wizards, one upload with a reply
\* that is displayed, and the click on "Log to History".
SetupLogNext ==
    \/ SetupPageLoad
    \/ SetupRedirect
    \/ EditForm([fullName |-> "Ann", age |-> <<3, 0>>])
    \/ ClickNext
    \/ ClickComplete
    \/ RouterClick("get-started-btn")
    \/ \E f \in router.loads : LoadSettle(f, TRUE)
    \/ \E u \in UserIds : SetUserId(u)
    \/ (runsStarted < 1 /\ ProcessUploadedImage)
    \/ \E f \in analyzeFetches, data \in LogResponses : AnalyzeSettle(f, FALSE, data)
    \/ LogIntake

SetupLogSpec == Init /\ [][SetupLogNext]_vars

\* The router, with a profile completed on its setup page.
RouterSpecNext ==
    \/ RouterNext
    \/ \E form \in WizardForms : EditForm(form)
    \/ ClickComplete

RouterSpec == Init /\ [][RouterSpecNext]_vars

\* ------------------------------------------- the personalization engine
\* personalize(result, prefs). An analysis result carries its rating, its
\* allergens in the order of the reply and the ingredient names of its text,
\* folded to lower case as the match does; the preferences carry the
\* allergies and the terms to avoid.
AllergenLists ==
    {<<>>, <<"milk">>, <<"milk", "peanuts">>, <<"peanuts", "milk">>}
AvoidTerms == <<"sugar", "palm oil">>
IngredientTexts == {{"sugar"}, {"sugar", "palm oil"}}

AnalysisResults ==
    [healthiness_rating : 1..10, allergens : AllergenLists,
     ingredients_text : IngredientTexts]
Preferences ==
    [allergies : {{}, {"milk"}, {"soy"}, {"milk", "peanuts"}},
     avoid_ingredients : {{}, {"sugar", "palm oil"}}]

\* The penalty subtracted for each matched allergen and each matched term.
Penalty == 2

\* The result's allergens the user is allergic to, in the result's order.
AllergenHits(result, prefs) ==
    SelectSeq(result.allergens, LAMBDA a : a \in prefs.allergies)

\* The terms to avoid found in the ingredient text.
AvoidHits(result, prefs) ==
    SelectSeq(AvoidTerms, LAMBDA t : t \in prefs.avoid_ingredients
                                      /\ t \in result.ingredients_text)

\* A score left as computed, outside 0..10.
ClampScoreNotAtAll(score) == score

\* clamp to [0,10]
ClampScore(score) == IF score < 0 THEN 0 ELSE IF score > 10 THEN 10 ELSE score

AsWarnings(class, hits) == [i \in 1..Len(hits) |-> Warning(class, hits[i])]

Personalize(result, prefs) ==
    LET allergenHits == AllergenHits(result, prefs)
        avoidHits == AvoidHits(result, prefs)
    IN  [safety_score_for_user |->
             ClampScore(result.healthiness_rating
                        - Penalty * (Len(allergenHits) + Len(avoidHits))),
         warnings_for_user |->
             AsWarnings("allergen", allergenHits) \o AsWarnings("avoid", avoidHits)]

personalizeFrame ==
    <<mainVars, localStorage, mainEnv, mainHist, scannerVars, peer, pipeline,
      wizard, router>>

PersonalizeCall(result, prefs) ==
    /\ personalized' = <<[result |-> result, prefs |-> prefs,
                          output |-> Personalize(result, prefs)]>>
    /\ UNCHANGED personalizeFrame

PersonalizeNext ==
    \E result \in AnalysisResults, prefs \in Preferences : PersonalizeCall(result, prefs)

PersonalizeSpec == Init /\ [][PersonalizeNext]_vars

PipelineSpec == Init /\ [][PipelineNext]_vars

ScannerSpec == Init /\ [][ScannerNext]_vars


ProfileSpec == Init /\ [][ProfileNext]_vars

\* ----------------------------------------------------- helpers of the claims
Reverse(s) == [i \in 1..Len(s) |-> s[Len(s) + 1 - i]]

\* s is t with some elements left out.
RECURSIVE IsSubseq(_, _)
IsSubseq(s, t) ==
    IF s = <<>> THEN TRUE
    ELSE IF t = <<>> THEN FALSE
    ELSE IF Head(s) = Head(t) THEN IsSubseq(Tail(s), Tail(t))
    ELSE IsSubseq(s, Tail(t))

\* s is the end of t.
IsSuffix(s, t) ==
    /\ Len(s) <= Len(t)
    /\ SubSeq(t, Len(t) - Len(s) + 1, Len(t)) = s

Holds(history, analysis) ==
    \E i \in 1..Len(history) : history[i].productAnalysis = analysis

SavedToast == Toast("Product saved to intake history!", "success")

\* ------------------------------------------------------------------ claims
\* C1: every saveToIntake made while an analysis is present adds exactly one
\* record, in front of the records already there, whatever they are; the
\* length grows by one per call.
C1_SaveAddsOneRecord ==
    [][(currentAnalysis # <<>> /\ \E ok \in BOOLEAN : SaveToIntake(ok))
        => /\ Len(intakeHistory') = Len(intakeHistory) + 1
           /\ Tail(intakeHistory') = intakeHistory
           /\ Head(intakeHistory').productAnalysis = currentAnalysis[1]]_vars

\* The very same analysis logged twice at the same instant: two equal records.
C1_Witness ==
    /\ Len(intakeHistory) >= 2
    /\ intakeHistory[1] = intakeHistory[2]
    /\ toast = SavedToast

C3_RoundTrip ==
    (lastLog # <<>> /\ lastLog[1].stored)
        => /\ Holds(intakeHistory, lastLog[1].analysis[1])
           /\ localStorage.intakeHistory # <<>>
           /\ Holds(ParseHistory(localStorage.intakeHistory[1]),
                    lastLog[1].analysis[1])

\* After a reload, with an analysis that was made with no category.
C3_Witness ==
    /\ lastLog # <<>> /\ lastLog[1].stored
    /\ lastLog[1].analysis[1].category = Undefined
    /\ currentAnalysis = <<>>
    /\ Holds(intakeHistory, lastLog[1].analysis[1])

\* C4 (as claimed): after every operation that returns, the dashboard shows
\* the number of records and the number of records of each recommendation,
\* all zero for an empty history.
C4_DashboardMatchesHistory ==
    thrown = "none" =>
    /\ dom.productsAnalyzed = NumberToString(Len(intakeHistory))
    /\ dom.safeProducts = NumberToString(CountRecommendation(intakeHistory, "safe"))
    /\ dom.cautionProducts = NumberToString(CountRecommendation(intakeHistory, "caution"))
    /\ dom.avoidProducts = NumberToString(CountRecommendation(intakeHistory, "avoid"))

\* C5: no step other than handleLogout (and a reload of the page, which
\* reads the history back from storage) changes or removes a record that
\* is in intakeHistory: the old history is the end of the new one.
C5_RecordsImmutable ==
    [][(~HandleLogout /\ ~PageLoad) => IsSuffix(intakeHistory, intakeHistory')]_vars

\* An older record survives a later analyzeProduct and saveToIntake.
C5_Witness ==
    /\ Len(intakeHistory) >= 2
    /\ currentAnalysis # <<>>
    /\ intakeHistory[1].productAnalysis = currentAnalysis[1]
    /\ intakeHistory[2].productAnalysis # currentAnalysis[1]
    /\ intakeHistory[2] = logged[1]

\* ------------------------------------------------------------ claims C6 - C8
DisplayedData == resultsContainer.view[1].data

\* C6: a failed analyze run displays no result and sends no log.  A report is
\* on display only for a response whose success is true; the step that
\* settles a run with a rejected request or with a response whose success is
\* not true leaves only the error alert and the error toast and sends
\* nothing; and a log request is sent only from a displayed report, with
\* that report's data.
C6_FailedRunShowsNothing ==
    /\ [](resultsContainer.kind = "result" => Truthy(DisplayedData.success))
    /\ [](\A f \in logFetches : Truthy(f.analysis_result.success))
    /\ [][\A f \in analyzeFetches, rejected \in BOOLEAN, data \in Responses \cup {NoBody} :
            (AnalyzeSettle(f, rejected, data) /\ (rejected \/ ~Truthy(data.success)))
               => /\ resultsContainer'.kind = "error"
                  /\ resultsContainer'.view = <<>>
                  /\ scannerToast'[1].type = "error"
                  /\ logFetches' = logFetches]_vars
    /\ [][logFetches' # logFetches
            => /\ resultsContainer.kind = "result"
               /\ \A f \in logFetches' \ logFetches :
                     f.analysis_result = DisplayedData]_vars

\* A run has failed with the backend's error while a user id was set.
C6_Witness ==
    /\ resultsContainer = Container("error", <<>>, "No text found")
    /\ scannerToast = ScanToast("Failed to analyze image: ", "No text found", "error")
    /\ localStorage.rekada_user_id # <<>>
    /\ analyzeFetches = {}

\* The fields of a report are in range: the rating (in tenths) is an
\* integer in 1..10, the stars total 10, the confidence is in 0..100.
InRange(report) ==
    /\ report.healthinessRating \in {10 * n : n \in 1..10}
    /\ report.filledStars + report.emptyStars = 10
    /\ report.confidencePercent \in 0..100

\* C7: for every response accepted as a result, the rating shown on the page
\* and in the downloaded report is an integer in 1..10 with ten stars in
\* all, and the confidence shown is within 0%..100%.
C7_TypedFieldsInRange ==
    /\ resultsContainer.kind = "result" => InRange(resultsContainer.view[1])
    /\ download # <<>> => InRange(download[1])

\* The claim as stated: a missing field gets its default, a present field
\* keeps its own value.
DefaultsWhenMissing(report) ==
    /\ report.fdaApproval =
          IF report.data.fda_approval = Undefined THEN "Unverified"
          ELSE report.data.fda_approval
    /\ report.healthinessRating =
          IF report.data.healthiness_rating = <<>> THEN 50
          ELSE report.data.healthiness_rating[1]

\* C8 as stated: a result that lacks fda_approval shows 'Unverified', one that
\* lacks healthiness_rating shows 5, and a present field shows its own value.
C8_DefaultsForMissing ==
    /\ resultsContainer.kind = "result" => DefaultsWhenMissing(resultsContainer.view[1])
    /\ download # <<>> => DefaultsWhenMissing(download[1])

DefaultsWhenFalsy(report) ==
    /\ report.fdaApproval =
          IF report.data.fda_approval \in {Undefined, ""} THEN "Unverified"
          ELSE report.data.fda_approval
    /\ report.healthinessRating =
          IF report.data.healthiness_rating \in {<<>>, <<0>>} THEN 50
          ELSE report.data.healthiness_rating[1]

\* C8 amended: a result whose fda_approval is missing or empty shows
\* 'Unverified', one whose healthiness_rating is missing or 0 shows 5, and
\* any other present value is shown as it is.
C8_DefaultsForMissingOrFalsy ==
    /\ resultsContainer.kind = "result" => DefaultsWhenFalsy(resultsContainer.view[1])
    /\ download # <<>> => DefaultsWhenFalsy(download[1])

\* A result without either field is on display and has been downloaded.
C8_Witness ==
    /\ resultsContainer.kind = "result"
    /\ DisplayedData.fda_approval = Undefined
    /\ DisplayedData.healthiness_rating = <<>>
    /\ resultsContainer.view[1].fdaApproval = "Unverified"
    /\ resultsContainer.view[1].healthinessRating = 50
    /\ download = resultsContainer.view

\* ----------------------------------------------------------- claims C9 - C10
\* C9: logging is never silently dropped.  An attempt of saveToIntake whose
\* storage write is rejected ends in the exception that reaches its caller,
\* and its success toast appears only when the write went through; a request
\* of logIntake that fails, or whose reply has a success other than true,
\* ends in an error toast, and 'Product logged to history!' appears only
\* when the backend stored the entry; an attempt that is not sent for want
\* of a user id ends in the warning toast.
C9_LogNeverSilentlyDropped ==
    /\ lastLog # <<>> =>
          /\ ~lastLog[1].stored => lastLog[1].report \in {"error", "exception"}
          /\ lastLog[1].report = "success" => lastLog[1].stored
    /\ scanLastLog # <<>> =>
          /\ ~scanLastLog[1].stored => scanLastLog[1].report \in {"error", "warning"}
          /\ scanLastLog[1].report = "success" => scanLastLog[1].stored

\* Both pages have just failed to store: the write of saveToIntake was
\* rejected, and the backend refused the request of logIntake.
C9_Witness ==
    /\ lastLog # <<>> /\ lastLog[1].analysis # <<>>
    /\ ~lastLog[1].stored /\ lastLog[1].report = "exception"
    /\ scanLastLog # <<>>
    /\ ~scanLastLog[1].stored /\ scanLastLog[1].report = "error"
    /\ scannerToast = ScanToast("Failed to log intake: ", "Storage error", "error")

\* C10: a failed log does not invalidate the analysis.  The step of
\* saveToIntake whose write is rejected leaves currentAnalysis as it was, and
\* set; the step of logIntake that ends in the warning or the error toast
\* leaves the results container as it was; so the attempt can be repeated.
C10_FailedLogKeepsAnalysis ==
    /\ [][((\E ok \in BOOLEAN : SaveToIntake(ok)) /\ thrown' # "none")
            => currentAnalysis' = currentAnalysis /\ currentAnalysis' # <<>>]_vars
    /\ [][(LogIntake /\ logFetches' = logFetches)
            => resultsContainer' = resultsContainer]_vars
    /\ [][\A f \in logFetches, outcome \in LogOutcomes :
            (LogSettle(f, outcome) /\ scannerToast'[1].type = "error")
               => resultsContainer' = resultsContainer]_vars

\* On both pages an analysis has been stored by an attempt that followed a
\* failed attempt for the same analysis.
C10_Witness ==
    /\ lastLog # <<>> /\ lastLog[1].stored /\ lastLog[1].afterFailure
    /\ currentAnalysis = lastLog[1].analysis
    /\ scanLastLog # <<>> /\ scanLastLog[1].stored /\ scanLastLog[1].afterFailure
    /\ scanLastLog[1].report = "success"
    /\ resultsContainer.kind = "result"
    /\ DisplayedData = scanLastLog[1].analysis

\* -------------------------------------------------------- claims C11 - C20
PersistedHistory ==
    IF localStorage.intakeHistory # <<>>
    THEN ParseHistory(localStorage.intakeHistory[1]) ELSE <<>>

InHistory(record, history) == \E i \in 1..Len(history) : history[i] = record

\* C11: concurrent writers are serialized.  When each of the two tabs has
\* logged one record and both saw their write succeed, the persisted
\* history holds both records.
C11_BothRecordsPersisted ==
    (/\ Len(logged) = 1 /\ toast = SavedToast
     /\ Len(peer.logged) = 1 /\ peer.toast = SavedToast)
        => /\ InHistory(logged[1], PersistedHistory)
           /\ InHistory(peer.logged[1], PersistedHistory)

\* C12: no operation hangs.  Every analyze request and every log request
\* in flight is eventually over, and the page eventually leaves the loading
\* state, also when no reply ever arrives.
C12_NoRequestHangs ==
    /\ (analyzeFetches # {}) ~> (analyzeFetches = {})
    /\ (logFetches # {}) ~> (logFetches = {})
    /\ (resultsContainer.kind = "loading") ~> (resultsContainer.kind # "loading")

AnyAnalyzeSettle ==
    \E f \in analyzeFetches, rejected \in BOOLEAN, data \in Responses \cup {NoBody} :
        AnalyzeSettle(f, rejected, data)

AnyLogSettle == \E f \in logFetches, outcome \in LogOutcomes : LogSettle(f, outcome)

\* C13: no automatic retry.  An upload adds exactly one analyze request and
\* a click on the log button at most one log request; the step in which a
\* request settles, failed or not, takes that request out of flight and
\* sends nothing; so a request is only ever sent by the user's own step.
C13_NoAutomaticRetry ==
    /\ [][ProcessUploadedImage
            => /\ Cardinality(analyzeFetches' \ analyzeFetches) = 1
               /\ analyzeFetches \subseteq analyzeFetches'
               /\ logFetches' = logFetches]_vars
    /\ [][LogIntake
            => /\ Cardinality(logFetches' \ logFetches) <= 1
               /\ logFetches \subseteq logFetches'
               /\ analyzeFetches' = analyzeFetches]_vars
    /\ [][AnyAnalyzeSettle
            => /\ Cardinality(analyzeFetches') = Cardinality(analyzeFetches) - 1
               /\ analyzeFetches' \subseteq analyzeFetches
               /\ logFetches' = logFetches]_vars
    /\ [][AnyLogSettle
            => /\ Cardinality(logFetches') = Cardinality(logFetches) - 1
               /\ logFetches' \subseteq logFetches
               /\ analyzeFetches' = analyzeFetches]_vars

\* An analyze request and a log request have both failed, and nothing is in
\* flight.
C13_Witness ==
    /\ runsStarted = 2 /\ logsSent = 1
    /\ resultsContainer.kind = "error"
    /\ scanLastLog # <<>> /\ scanLastLog[1].report = "error"
    /\ analyzeFetches = {} /\ logFetches = {}

\* C14: concurrent runs do not interfere.  Once every run has finished, the
\* outcome on display is that of the run started last.
C14_NewestRunOnDisplay ==
    (runsStarted > 0 /\ analyzeFetches = {}) => displayedRun = runsStarted

StoredUserId == localStorage.rekada_user_id

\* C15: user-context gating.  logIntake sends a request, carrying the stored
\* id, only when a non-empty user id is stored; without one it sends nothing
\* and shows the warning.  processUploadedImage always sends its request,
\* with the user id when a non-empty one is stored and without the field
\* otherwise.
C15_UserContextGating ==
    /\ [](\A f \in logFetches : f.user_id # "")
    /\ [][LogIntake =>
            IF StoredUserId # <<>> /\ StoredUserId[1] # ""
            THEN \E f \in logFetches' \ logFetches : f.user_id = StoredUserId[1]
            ELSE /\ logFetches' = logFetches
                 /\ scannerToast' = ScanToast("Please set up your profile first",
                                              "", "warning")]_vars
    /\ [][ProcessUploadedImage =>
            \E f \in analyzeFetches' \ analyzeFetches :
                f.user_id = IF StoredUserId # <<>> /\ StoredUserId[1] # ""
                            THEN StoredUserId ELSE <<>>]_vars

\* A result obtained without a user id is on display, and a click on the
\* log button has sent nothing and shown the warning.
C15_Witness ==
    /\ StoredUserId = <<>>
    /\ resultsContainer.kind = "result"
    /\ scannerToast = ScanToast("Please set up your profile first", "", "warning")
    /\ logFetches = {} /\ logsSent = 0

\* C16: record identity.  The ids of the records in intakeHistory are
\* pairwise distinct.
C16_RecordIdsDistinct ==
    \A i, j \in 1..Len(intakeHistory) :
        i # j => intakeHistory[i].id # intakeHistory[j].id

\* A successful response without a category: product_type missing or
\* 'unknown', confidence missing or 0 (and a rating the stars can show).
IsUnknownResult(data) ==
    /\ Truthy(data.success)
    /\ data.product_type \in {Undefined, "unknown"}
    /\ data.classification_confidence \in {<<>>, <<0>>}
    /\ data.healthiness_rating \in {<<>>} \cup {<<r>> : r \in 0..100}

\* C17: unknown category is a valid result.  The reply of a successful
\* analysis without a category is displayed as a report of type UNKNOWN
\* with confidence 0%, with the success toast, and a click on its log button
\* sends its data when a user id is stored.
C17_UnknownIsAResult ==
    /\ [][\A f \in analyzeFetches, data \in Responses :
            (AnalyzeSettle(f, FALSE, data) /\ IsUnknownResult(data))
               => /\ resultsContainer'.kind = "result"
                  /\ resultsContainer'.view[1].data = data
                  /\ resultsContainer'.view[1].productType = "UNKNOWN"
                  /\ resultsContainer'.view[1].confidencePercent = 0
                  /\ scannerToast' = ScanToast("Analysis complete!", "", "success")]_vars
    /\ [][(/\ LogIntake
           /\ IsUnknownResult(DisplayedData)
           /\ StoredUserId # <<>> /\ StoredUserId[1] # "")
            => \E f \in logFetches' \ logFetches : f.analysis_result = DisplayedData]_vars

\* The report of a response without product_type is on display and a log
\* request with its data is in flight.
C17_Witness ==
    /\ resultsContainer.kind = "result"
    /\ DisplayedData.product_type = Undefined
    /\ resultsContainer.view[1].productType = "UNKNOWN"
    /\ resultsContainer.view[1].confidencePercent = 0
    /\ \E f \in logFetches : f.analysis_result = DisplayedData

ClassRank(class) ==
    CASE class = "allergen" -> 1 [] class = "avoid" -> 2
      [] class = "dietary" -> 3 [] class = "goal" -> 4

InClassOrder(warnings) ==
    \A i, j \in 1..Len(warnings) :
        i < j => ClassRank(warnings[i].class) <= ClassRank(warnings[j].class)

ShownWarnings(report) == [i \in 1..Len(report.warnings) |-> report.warnings[i].item]

ReceivedWarnings(report) ==
    IF report.data.warnings_for_user = <<>> THEN <<>>
    ELSE report.data.warnings_for_user[1]

\* C18: warning order is preserved.  The warnings of the page's report and
\* of the Markdown report are the warnings received, in the order received;
\* so a list that came with allergen hits first, then avoid-ingredient hits,
\* dietary conflicts and health-goal advisories is shown in that order.
C18_WarningOrderPreserved ==
    /\ resultsContainer.kind = "result" =>
          /\ ShownWarnings(resultsContainer.view[1])
                = ReceivedWarnings(resultsContainer.view[1])
          /\ InClassOrder(ReceivedWarnings(resultsContainer.view[1]))
                => InClassOrder(ShownWarnings(resultsContainer.view[1]))
    /\ download # <<>> =>
          /\ ShownWarnings(download[1]) = ReceivedWarnings(download[1])
          /\ InClassOrder(ReceivedWarnings(download[1]))
                => InClassOrder(ShownWarnings(download[1]))

\* A report with four warnings in class order is on display and has been
\* downloaded.
C18_Witness ==
    /\ resultsContainer.kind = "result"
    /\ Len(ReceivedWarnings(resultsContainer.view[1])) = 4
    /\ InClassOrder(ShownWarnings(resultsContainer.view[1]))
    /\ ShownWarnings(resultsContainer.view[1])[1].class = "allergen"
    /\ download = resultsContainer.view

\* C19: single schema retry.  In one analyze call the reasoning service is
\* requested at most twice; a first malformed reply leaves the call waiting
\* for its one re-request; a result comes from a valid first reply or from a
\* valid reply to the re-request; a second malformed reply ends the call
\* with AnalysisMalformed and no result.
C19_SingleSchemaRetry ==
    /\ pipeline.requests <= 2
    /\ pipeline.replies = <<"malformed">> =>
          pipeline.stage = "analysis" /\ pipeline.failure = "none"
    /\ pipeline.replies = <<"malformed", "valid">> =>
          pipeline.stage = "done" /\ pipeline.analysis # <<>>
    /\ pipeline.replies = <<"malformed", "malformed">> =>
          /\ pipeline.stage = "failed"
          /\ pipeline.failure = "AnalysisMalformed"
          /\ pipeline.analysis = <<>>
    /\ pipeline.failure = "AnalysisMalformed" =>
          pipeline.replies = <<"malformed", "malformed">>
    /\ pipeline.analysis # <<>> =>
          pipeline.replies \in {<<"valid">>, <<"malformed", "valid">>}

\* A call has ended with AnalysisMalformed after its re-request.
C19_Witness ==
    /\ pipeline.failure = "AnalysisMalformed"
    /\ pipeline.requests = 2
    /\ pipeline.classification # <<>>

StageOrder == <<"extraction", "classification", "analysis">>

IsPrefix(s, t) == Len(s) <= Len(t) /\ \A i \in 1..Len(s) : s[i] = t[i]

\* C20: stages fail closed and in order.  The stages of a run start in the
\* order extraction, classification, analysis, each on the result of the
\* one before; a failed run stays as it is until a new run starts, and it
\* holds its typed failure with exactly the results of the stages that
\* succeeded before the failing one, and no analysis.
C20_FailClosedInOrder ==
    /\ [](IsPrefix(pipeline.ran, StageOrder))
    /\ [](pipeline.classification # <<>> => pipeline.labelText # <<>>)
    /\ [](pipeline.analysis # <<>> => pipeline.classification # <<>>)
    /\ [](pipeline.stage = "failed" =>
            /\ pipeline.analysis = <<>>
            /\ pipeline.failure \in ExtractionFailures
                                    \cup {"AnalysisUnavailable", "AnalysisMalformed"}
            /\ pipeline.failure \in ExtractionFailures =>
                  /\ pipeline.ran = <<"extraction">>
                  /\ pipeline.labelText = <<>> /\ pipeline.classification = <<>>
            /\ pipeline.failure \in {"AnalysisUnavailable", "AnalysisMalformed"} =>
                  /\ pipeline.ran = StageOrder
                  /\ pipeline.labelText # <<>>
                  /\ pipeline.classification = <<Classify(pipeline.labelText[1])>>)
    /\ [](pipeline.stage # "failed" => pipeline.failure = "none")
    /\ [][(pipeline.stage = "failed" /\ pipeline' # pipeline)
            => \E source \in Sources : StartRun(source)]_vars

\* A run has failed in analysis after extraction and classification
\* succeeded.
C20_Witness ==
    /\ pipeline.stage = "failed"
    /\ pipeline.failure = "AnalysisUnavailable"
    /\ pipeline.labelText # <<>>
    /\ pipeline.classification # <<>>
    /\ pipeline.run = 2

\* C21: every personalized result has its safety score within 0..10; and when
\* one of the user's allergies is among the result's allergens, the score is
\* strictly below the healthiness rating and the warnings list starts with
\* the warning of a matched allergen.
AllergyMatched(call) ==
    \E i \in 1..Len(call.result.allergens) :
        call.result.allergens[i] \in call.prefs.allergies

C21_PersonalizedScore ==
    personalized # <<>> =>
        LET call == personalized[1]
            out == call.output
        IN  /\ out.safety_score_for_user \in 0..10
            /\ AllergyMatched(call) =>
                  /\ out.safety_score_for_user < call.result.healthiness_rating
                  /\ out.warnings_for_user # <<>>
                  /\ out.warnings_for_user[1].class = "allergen"
                  /\ out.warnings_for_user[1].text \in call.prefs.allergies
                  /\ \E i \in 1..Len(call.result.allergens) :
                        call.result.allergens[i] = out.warnings_for_user[1].text

\* A milk allergy meets a result with milk and an avoided term, and the
\* penalties reach below zero.
C21_Witness ==
    /\ personalized # <<>>
    /\ personalized[1].prefs.allergies = {"milk"}
    /\ personalized[1].result.allergens = <<"peanuts", "milk">>
    /\ personalized[1].result.healthiness_rating = 1
    /\ Len(personalized[1].output.warnings_for_user) = 2

\* C22: classifier determinism.  Calls of classify on the same label text
\* gave the same category and confidence, and the category returned is the
\* first, in the order food, drink, beauty, of those reaching the highest
\* score (unknown with confidence 0 when no term matched).
Precedence(category) ==
    CASE category = "food" -> 1 [] category = "drink" -> 2 [] category = "beauty" -> 3

RealCategories == {"food", "drink", "beauty"}

C23_AgreeAfterEveryCall ==
    [][(/\ \/ \E ok \in BOOLEAN : SaveToIntake(ok)
           \/ HandleLogout
           \/ PageLoad
        /\ thrown' = "none")
          => PersistedHistory' = intakeHistory']_vars

\* C23: persisted and in-memory history agree.  After every saveToIntake
\* that stored its record, every handleLogout and every loadUserData the
\* history stored under 'intakeHistory' equals the in-memory intakeHistory
\* (no stored value counting as the empty history); a saveToIntake that
\* refuses for want of an analysis changes neither of the two.
C23_HistoriesAgree ==
    /\ [][(\/ currentAnalysis # <<>> /\ SaveToIntake(TRUE)
           \/ HandleLogout
           \/ PageLoad)
             => PersistedHistory' = intakeHistory']_vars
    /\ [][(currentAnalysis = <<>> /\ SaveToIntake(TRUE))
             => UNCHANGED <<intakeHistory, localStorage>>]_vars

\* The second save of a session has stored a history of two records.
C23_Witness ==
    /\ Len(intakeHistory) = 2
    /\ lastLog # <<>> /\ lastLog[1].stored
    /\ thrown = "none"
    /\ PersistedHistory = intakeHistory

C25_WizardStepBounds ==
    /\ [](wizard.currentStep \in 1..6)
    /\ [][(ClickPrev /\ wizard.currentStep = 1)
             => wizard'.currentStep = wizard.currentStep]_vars
    /\ [][(ClickNext /\ wizard.currentStep = totalSteps)
             => wizard'.currentStep = wizard.currentStep]_vars
    /\ [][(ClickPrev /\ wizard.currentStep > 1)
             => wizard'.currentStep = wizard.currentStep - 1]_vars
    /\ [][(ClickNext /\ wizard.currentStep < totalSteps)
             => \/ wizard'.currentStep = wizard.currentStep + 1
                \/ /\ wizard'.currentStep = wizard.currentStep
                   /\ wizard.currentStep = 1
                   /\ wizard'.toast = NextRefusalToast(wizard.impl)]_vars
    /\ [][ClickComplete => wizard'.currentStep = wizard.currentStep]_vars

\* The wizard of router.js stands at step 6 after a refused Next at step 1.
C25_Witness ==
    /\ wizard.impl = "router.js"
    /\ wizard.currentStep = totalSteps
    /\ wizard.toast = NextRefusalToast("router.js")

\* C26: step 1 is the only gated step.  A click on Next at step 1 moves to
\* step 2 exactly when the full name and the age field are both non-empty,
\* and otherwise leaves the step at 1 and shows a warning; at steps 2 to 5 a
\* click on Next always advances; and whenever the wizard stands above step
\* 1, the name and the age were non-empty when step 1 was last left.
FilledIn(form) == form.fullName # "" /\ form.age # <<>>

C26_OnlyStepOneGated ==
    /\ [][(ClickNext /\ wizard.currentStep = 1) =>
            IF FilledIn(wizard.form)
            THEN wizard'.currentStep = 2
            ELSE /\ wizard'.currentStep = 1
                 /\ wizard'.toast # NoToast
                 /\ wizard'.toast[1].type = "warning"]_vars
    /\ [][(ClickNext /\ wizard.currentStep \in 2..5)
             => wizard'.currentStep = wizard.currentStep + 1]_vars
    /\ [](wizard.currentStep > 1 =>
            /\ wizard.leftStepOne # <<>>
            /\ FilledIn(wizard.leftStepOne[1]))

\* The wizard stands at step 4 on a form emptied after step 1 was left.
C26_Witness ==
    /\ wizard.impl = "user-setup.js"
    /\ wizard.currentStep = 4
    /\ wizard.form = EmptyForm
    /\ wizard.leftStepOne = <<[fullName |-> "Ann", age |-> <<0>>]>>

\* C27: stored profiles are valid in both wizards.  A profile is in storage
\* only with a non-empty fullName and a non-zero age, and on every form and
\* at every step a click on Complete stores a profile in the wizard of
\* user-setup.js exactly when it does in the wizard of router.js.
StoredProfile == ParseObject(localStorage.rekada_user_profile[1])

C27_StoredProfilesValid ==
    /\ [](localStorage.rekada_user_profile # <<>> =>
            StoredProfile.fullName # "" /\ StoredProfile.age # 0)
    /\ [][ClickComplete =>
            (CompletionStores("user-setup.js", wizard.currentStep, wizard.form)
               <=> CompletionStores("router.js", wizard.currentStep, wizard.form))]_vars

\* C28: setup enables logging.  Once a profile created through a setup
\* wizard is in storage, a click on "Log to History" sends the log request
\* and does not show 'Please set up your profile first'.
C28_SetupEnablesLogging ==
    [][(/\ wizard.completions > 0
        /\ localStorage.rekada_user_profile # <<>>
        /\ LogIntake)
          => /\ logsSent' = logsSent + 1
             /\ scannerToast' # ScanToast("Please set up your profile first", "", "warning")]_vars

\* C29: router failure keeps state.  currentPage of a router changes only
\* when one of its loadPage calls has fetched its page, and then the page is
\* installed and currentPage is its name; when the fetch fails or answers
\* with a status that is not ok, currentPage stays, the error view is shown;
\* and after either outcome the loader is hidden and the container visible.
C29_RouterFailureKeepsState ==
    /\ [][(router'.currentPage # router.currentPage /\ ~RouterBoot) =>
            \E f \in router.loads :
                /\ LoadSettle(f, TRUE)
                /\ router'.currentPage = <<f.page>>
                /\ router'.view = [kind |-> "page", page |-> f.page]]_vars
    /\ [][\A f \in router.loads :
            LoadSettle(f, FALSE) =>
                /\ router'.currentPage = router.currentPage
                /\ router'.view.kind = "error"
                /\ router'.loaderHidden /\ ~router'.containerHidden]_vars
    /\ [][\A f \in router.loads :
            LoadSettle(f, TRUE) =>
                /\ router'.currentPage = <<f.page>>
                /\ router'.loaderHidden /\ ~router'.containerHidden]_vars

\* The load of the setup page has failed on the landing page: the error
\* view is shown and currentPage is still the landing page.
C29_Witness ==
    /\ router.failures = 1
    /\ router.loads = {}
    /\ router.lastStarted = "user-setup"
    /\ router.currentPage = <<"landing">>
    /\ router.view.kind = "error"
    /\ router.loaderHidden /\ ~router.containerHidden

\* C30: router load race.  When loadPage calls of a router have overlapped
\* and all its calls have finished, none of them in failure, the page on
\* display and currentPage are those of the call started last.
C30_NewestLoadWins ==
    (router.overlapped /\ router.loads = {} /\ router.failures = 0)
        => /\ router.currentPage = <<router.lastStarted>>
           /\ router.view = [kind |-> "page", page |-> router.lastStarted]

====
